---- MODULE Spec2Model ----
(***************************************************************************)
(* Model of create-sankematicSource.py: generate_sankey_data turns a cost  *)
(* table into three blocks of Sankey flow lines.  The table is a sequence  *)
(* of rows; every step of generate_sankey_data (the numbered sections of   *)
(* its body) is one action.                                                *)
(***************************************************************************)
EXTENDS Integers, Sequences, FiniteSets, TLC

(* ------------------------------ bounds --------------------------------- *)
\* most rows of an input table
MaxRows == 4
\* most rows of an input table whose rows are unrestricted
MaxFreeRows == 2
\* largest 'Monthy Cost' of one row, in half units (3 is "1.5")
MaxHalves == 2
\* largest --TopCategories tried
MaxCap == 3

(* --------------------------- input domains ----------------------------- *)
\* every category name of the model, in ascending string order (the order
\* of a groupby index); "ETL Tools" and "Others" are produced by the code
NameOrder ==
    << "Azure Data Factory v2", "Azure Database for PostgreSQL",
       "Azure Synapse Analytics", "ETL Tools", "Others", "Prod", "Storage",
       "Test", "Virtual Machines" >>

Rank(name) == CHOOSE i \in 1..Len(NameOrder) : NameOrder[i] = name

RawCategories ==
    { "Azure Data Factory v2", "Azure Database for PostgreSQL",
      "Azure Synapse Analytics", "Storage", "Virtual Machines" }

Environments == { "Prod", "Test" }

pricing_order == << "SavingsPlan", "Reservation", "OnDemand" >>

PricingModels == { pricing_order[i] : i \in 1..Len(pricing_order) }

HARDCODED_OVERWRITE_MAP ==
    [ n \in { "Azure Database for PostgreSQL", "Azure Cognitive Search" } |->
        IF n = "Azure Database for PostgreSQL" THEN "PostgreSQL" ELSE "Azure Search" ]

get_label(name, overwrite_map) ==
    IF name \in DOMAIN overwrite_map THEN overwrite_map[name] ELSE name

(* ------------------------------ helpers -------------------------------- *)
Range(s) == { s[i] : i \in 1..Len(s) }

RECURSIVE SumCost(_)
\* Series.sum() of the 'Monthy Cost' column of a sequence of rows
SumCost(rows) ==
    IF rows = << >> THEN 0
    ELSE Head(rows).MonthyCost + SumCost(Tail(rows))

\* df[df[col] == v]
Filter(rows, col, v) == SelectSeq(rows, LAMBDA r : r[col] = v)

\* df.groupby(col)['Monthy Cost'].sum(): one key per value that occurs
GroupSum(rows, col) ==
    [ k \in { rows[i][col] : i \in 1..Len(rows) } |-> SumCost(Filter(rows, col, k)) ]

\* float(x).round(0).astype(int) of a cost given in half units: numpy rounds
\* a half to the even integer
RoundHalfEven(halves) ==
    LET q == halves \div 2
    IN  IF halves % 2 = 0 THEN q
        ELSE IF q % 2 = 0 THEN q ELSE q + 1

\* Series.replace([...], 'ETL Tools') on one category
MergeUmbrella(category) ==
    IF category \in { "Azure Data Factory v2", "Azure Synapse Analytics" }
    THEN "ETL Tools" ELSE category

\* Series.sort_values(ascending=False): pandas sorts with kind='quicksort',
\* which is not stable, so equal costs come out in an order the build picks.
\* The set of every key order with non-increasing cost.
SortValuesDesc(s) ==
    LET n == Cardinality(DOMAIN s)
    IN  { o \in [1..n -> DOMAIN s] :
            /\ \A i, j \in 1..n : i # j => o[i] # o[j]
            /\ \A i \in 1..(n - 1) : s[o[i]] >= s[o[i + 1]] }

\* Series.head(n).index.tolist()
HeadKeys(order, n) == { order[i] : i \in 1..(IF n < Len(order) THEN n ELSE Len(order)) }

(* --------------------------- input tables ------------------------------ *)
\* one row of the CSV; 'Monthy Cost' is the amount in half units.  Amounts
\* are not negative, the pricing model is one of the three the code names,
\* and no raw category is called "Others" or "ETL Tools".
Rows ==
    [ MeterCategory : RawCategories, PricingModel : PricingModels,
      Environment : Environments, MonthyCost : 0..MaxHalves ]

ModelRank(m) == CHOOSE i \in 1..Len(pricing_order) : pricing_order[i] = m

\* position of a row in a fixed enumeration of Rows: by category first
RowRank(r) ==
    ((Rank(r.MeterCategory) * 4 + ModelRank(r.PricingModel)) * Len(NameOrder)
        + Rank(r.Environment)) * (MaxHalves + 1) + r.MonthyCost

\* the tables of n rows, each multiset of rows listed once (in RowRank
\* order): the code only sums groups of rows and tests membership, so the
\* order of the rows is never observed
FreeTablesOfLen(n) ==
    { t \in [1..n -> Rows] :
        \A i \in 1..(n - 1) : RowRank(t[i]) <= RowRank(t[i + 1]) }

\* the whole amounts, in half units
WideCosts == { c \in 0..MaxHalves : c % 2 = 0 }

\* the categories of cs in ascending order
CatSeq(cs) ==
    [ i \in 1..Cardinality(cs) |->
        CHOOSE c \in cs : Cardinality({ d \in cs : Rank(d) < Rank(c) }) = i - 1 ]

\* the wide table with one row for each category of cs: whole amounts in the
\* production environment
WideTable(cs, models, costs) ==
    [ i \in 1..Cardinality(cs) |->
        [ MeterCategory |-> CatSeq(cs)[i], PricingModel |-> models[CatSeq(cs)[i]],
          Environment |-> "Prod", MonthyCost |-> costs[CatSeq(cs)[i]] ] ]

\* the input tables: every table of at most MaxFreeRows rows, and the wide
\* tables of more rows, up to MaxRows
IsInputTable(t) ==
    \/ \E n \in 1..MaxFreeRows : t \in FreeTablesOfLen(n)
    \/ \E cs \in SUBSET RawCategories :
          /\ Cardinality(cs) \in (MaxFreeRows + 1)..MaxRows
          /\ \E models \in [cs -> PricingModels] :
                \E costs \in [cs -> WideCosts] : t = WideTable(cs, models, costs)

(* ------------------------------- state --------------------------------- *)
VARIABLES
    pc,                    \* the section of generate_sankey_data to run next
    df,                    \* the table
    top_categories,        \* --TopCategories
    categories_to_keep,    \* set of the categories kept as named nodes
    category_sort_list,    \* grouped categories with their cost, sorted
    environment_sort_list, \* environments with their cost, sorted
    sankey_lines           \* the emitted lines

vars ==
    << pc, df, top_categories, categories_to_keep, category_sort_list,
       environment_sort_list, sankey_lines >>

Init ==
    /\ pc = "clean"
    /\ IsInputTable(df)
    /\ top_categories \in 1..MaxCap
    /\ categories_to_keep = {}
    /\ category_sort_list = << >>
    /\ environment_sort_list = << >>
    /\ sankey_lines = << >>

(* ---------------- section 2: clean and pre-process --------------------- *)
CleanRow(r) ==
    [ r EXCEPT !.MonthyCost = RoundHalfEven(r.MonthyCost),
               !.MeterCategory = MergeUmbrella(r.MeterCategory) ]

Clean ==
    /\ pc = "clean"
    /\ df' = [ i \in 1..Len(df) |-> CleanRow(df[i]) ]
    /\ pc' = "select"
    /\ UNCHANGED << top_categories, categories_to_keep, category_sort_list,
                    environment_sort_list, sankey_lines >>

(* ------------- section 3: identify the categories to keep -------------- *)
grouped_by_cat(d) == GroupSum(d, "MeterCategory")

reservation_cats(d) ==
    { r.MeterCategory : r \in Range(Filter(d, "PricingModel", "Reservation")) }

\* slip: no slot is set aside for "Others"
slots_for_specific_NoOthersSlot(top) == top

\* "Others" takes 1 slot
slots_for_specific(top) == top - 1

\* slip: the comparison of line 66 turned around
KeepAll_Reversed(total_unique_cats, top) == total_unique_cats >= top

\* slip: '<' for '<=' in line 66
KeepAll_Strict(total_unique_cats, top) == total_unique_cats < top

\* the test of line 66: every category fits under the cap
KeepAll(total_unique_cats, top) == total_unique_cats <= top

\* the test of line 73: the mandatory categories fill the specific slots
MandatoryFills(mandatory, slots) == Cardinality(mandatory) >= slots

\* grouped_by_cat.drop(labels=mandatory, errors='ignore')
DropLabels(s, labels) == [ k \in (DOMAIN s) \ labels |-> s[k] ]

\* the possible values of fillers (one per order the sort may produce)
Fillers(d, mandatory, slots) ==
    LET slots_remaining == slots - Cardinality(mandatory)
        candidates == SortValuesDesc(DropLabels(grouped_by_cat(d), mandatory))
    IN  { HeadKeys(o, slots_remaining) : o \in candidates }

\* slip: the mandatory categories cut down to the free slots
KeepMandatory_Capped(mandatory, slots) ==
    LET n == IF slots < Cardinality(mandatory) THEN (IF slots < 0 THEN 0 ELSE slots)
             ELSE Cardinality(mandatory)
    IN  CHOOSE k \in SUBSET mandatory : Cardinality(k) = n

\* the categories kept by the mandatory branch
KeepMandatory(mandatory, slots) == mandatory

\* slip: the mandatory categories left out of the union
KeepFilled_FillersOnly(mandatory, fillers) == fillers

\* list(set(mandatory) | set(fillers))
KeepFilled(mandatory, fillers) == mandatory \cup fillers

\* the possible values of categories_to_keep
CategoriesToKeep(d, top) ==
    LET total_unique_cats == Cardinality(DOMAIN grouped_by_cat(d))
        mandatory == reservation_cats(d)
        slots == slots_for_specific(top)
    IN  IF KeepAll(total_unique_cats, top) THEN { DOMAIN grouped_by_cat(d) }
        ELSE IF MandatoryFills(mandatory, slots)
             THEN { KeepMandatory(mandatory, slots) }
             ELSE { KeepFilled(mandatory, f) : f \in Fillers(d, mandatory, slots) }

Select ==
    /\ pc = "select"
    /\ categories_to_keep' \in CategoriesToKeep(df, top_categories)
    /\ pc' = "group"
    /\ UNCHANGED << df, top_categories, category_sort_list,
                    environment_sort_list, sankey_lines >>

(* ----------------- section 4: the "Others" grouping -------------------- *)
\* slip: the two branches of apply_grouping swapped
apply_grouping_Swapped(category, keep) ==
    IF category \in keep THEN "Others" ELSE category

apply_grouping(category, keep) ==
    IF category \in keep THEN category ELSE "Others"

Group ==
    /\ pc = "group"
    /\ df' = [ i \in 1..Len(df) |->
                 df[i] @@ ("MeterCategory_Grouped" :>
                             apply_grouping(df[i].MeterCategory, categories_to_keep)) ]
    /\ pc' = "sort"
    /\ UNCHANGED << top_categories, categories_to_keep, category_sort_list,
                    environment_sort_list, sankey_lines >>

(* -------------------- section 5: the sort orders ----------------------- *)
\* the sorted Series as a sequence of (key, cost) items
Items(s, order) == [ i \in 1..Len(order) |-> [ key |-> order[i], cost |-> s[order[i]] ] ]

SortedItems(s) == { Items(s, o) : o \in SortValuesDesc(s) }

Sort ==
    /\ pc = "sort"
    /\ category_sort_list' \in SortedItems(GroupSum(df, "MeterCategory_Grouped"))
    /\ environment_sort_list' \in SortedItems(GroupSum(df, "Environment"))
    /\ pc' = "emit"
    /\ UNCHANGED << df, top_categories, categories_to_keep, sankey_lines >>

(* ------------------- section 6: the Sankey output ---------------------- *)
Line(src, cost, dst) == [ src |-> src, cost |-> cost, dst |-> dst ]

\* the empty line between flows
BlankLine == Line("", 0, "")

\* slip: a pair of cost 1 is dropped as well
Flow1Emits_AboveOne(cost) == cost > 1

\* the test of line 108 on the summed cost of a (model, category) pair
Flow1Emits(cost) == cost > 0

\* Flow 1, the lines of one pricing model
Flow1Model(d, model, cats, overwrite_map) ==
    LET model_cat_costs == GroupSum(Filter(d, "PricingModel", model), "MeterCategory_Grouped")
        kept == SelectSeq(cats, LAMBDA it :
                    /\ it.key \in DOMAIN model_cat_costs
                    /\ Flow1Emits(model_cat_costs[it.key]))
    IN  [ i \in 1..Len(kept) |->
            Line(model, model_cat_costs[kept[i].key], get_label(kept[i].key, overwrite_map)) ]

\* Flow 1: PricingModel -> MeterCategory_Grouped
Flow1(d, cats, overwrite_map) ==
    Flow1Model(d, pricing_order[1], cats, overwrite_map)
        \o Flow1Model(d, pricing_order[2], cats, overwrite_map)
        \o Flow1Model(d, pricing_order[3], cats, overwrite_map)

\* Flow 2: MeterCategory_Grouped -> TotalMonthly
Flow2(cats, overwrite_map) ==
    [ i \in 1..Len(cats) |->
        Line(get_label(cats[i].key, overwrite_map), cats[i].cost, "TotalMonthly") ]

\* Flow 3: TotalMonthly -> Environment
Flow3(envs, overwrite_map) ==
    [ i \in 1..Len(envs) |->
        Line("TotalMonthly", envs[i].cost, get_label(envs[i].key, overwrite_map)) ]

Emit ==
    /\ pc = "emit"
    /\ sankey_lines' =
         Flow1(df, category_sort_list, HARDCODED_OVERWRITE_MAP) \o << BlankLine >>
           \o Flow2(category_sort_list, HARDCODED_OVERWRITE_MAP) \o << BlankLine >>
           \o Flow3(environment_sort_list, HARDCODED_OVERWRITE_MAP)
    /\ pc' = "done"
    /\ UNCHANGED << df, top_categories, categories_to_keep, category_sort_list,
                    environment_sort_list >>

Next == Clean \/ Select \/ Group \/ Sort \/ Emit

Spec == Init /\ [][Next]_vars

(* ----------------- views of the state and the output ------------------- *)
Done == pc = "done"

\* categories_to_keep has been computed
Selected == pc \in { "group", "sort", "emit", "done" }

\* the rows carry their grouped category
Grouped == pc \in { "sort", "emit", "done" }

\* the distinct categories after the umbrella merge (df is cleaned by then)
Cats == DOMAIN grouped_by_cat(df)

Mandatory == reservation_cats(df)

\* more categories than the cap, and free slots left after the mandatory ones
FillBranch ==
    /\ Cardinality(Cats) > top_categories
    /\ Cardinality(Mandatory) < top_categories - 1

\* more categories than the cap, and the mandatory ones take every slot
MandatoryBranch ==
    /\ Cardinality(Cats) > top_categories
    /\ Cardinality(Mandatory) >= top_categories - 1

BlankAt == { i \in 1..Len(sankey_lines) : sankey_lines[i] = BlankLine }

FirstBlank == CHOOSE i \in BlankAt : \A j \in BlankAt : i <= j

LastBlank == CHOOSE i \in BlankAt : \A j \in BlankAt : j <= i

Block1 == SubSeq(sankey_lines, 1, FirstBlank - 1)

Block2 == SubSeq(sankey_lines, FirstBlank + 1, LastBlank - 1)

Block3 == SubSeq(sankey_lines, LastBlank + 1, Len(sankey_lines))

RECURSIVE LineSum(_)
LineSum(lines) ==
    IF lines = << >> THEN 0 ELSE Head(lines).cost + LineSum(Tail(lines))

\* the rows of one category
RowsOf(c) == Filter(df, "MeterCategory", c)

OthersLabel == get_label("Others", HARDCODED_OVERWRITE_MAP)

(* ---------------------------- properties ------------------------------- *)
\* C1: the costs of the Block 1 lines, of the Block 2 lines and of the
\* Block 3 lines each add up to the grand total of the normalized costs.
C1_CostConserved ==
    Done =>
        /\ LineSum(Block1) = LineSum(Block2)
        /\ LineSum(Block2) = LineSum(Block3)
        /\ LineSum(Block3) = SumCost(df)

\* C1 witness: an output with several lines in every block, an Others node
\* among them, and a positive total.
C1_Witness ==
    /\ Done
    /\ SumCost(df) > 0
    /\ Len(Block1) >= 2 /\ Len(Block2) >= 2 /\ Len(Block3) >= 2
    /\ \E i \in 1..Len(Block2) : Block2[i].src = OthersLabel /\ Block2[i].cost > 0

\* C2: no emitted line, in any of the three blocks, carries cost 0.
C2_NoZeroCostLine ==
    Done =>
        \A i \in 1..Len(sankey_lines) :
            sankey_lines[i] # BlankLine => sankey_lines[i].cost # 0

C4_ReservationKept ==
    \A c \in (IF pc = "clean" THEN {} ELSE Mandatory) :
        Cardinality(Mandatory) < top_categories - 1 =>
            /\ Selected => c \in categories_to_keep
            /\ Grouped =>
                 \A i \in 1..Len(df) :
                     df[i].MeterCategory = c =>
                         /\ df[i].MeterCategory_Grouped = c
                         /\ df[i].MeterCategory_Grouped # "Others"
            /\ Done =>
                 \E i \in 1..Len(Block2) :
                     Block2[i].src = get_label(c, HARDCODED_OVERWRITE_MAP)

\* C4 witness: the slots are filled from a mandatory category and others,
\* and some category is folded into Others.
C4_Witness ==
    /\ Done
    /\ FillBranch
    /\ Mandatory # {}
    /\ \E i \in 1..Len(df) : df[i].MeterCategory_Grouped = "Others"

\* C5: with no more distinct categories than the cap, no row is grouped into
\* Others and no line of Block 1 or Block 2 has Others as its category.
C5_NoOthersUnderCap ==
    (pc # "clean" /\ Cardinality(Cats) <= top_categories) =>
        /\ Selected => Cats \subseteq categories_to_keep
        /\ Grouped =>
             \A i \in 1..Len(df) : df[i].MeterCategory_Grouped # "Others"
        /\ Done =>
             /\ \A i \in 1..Len(Block1) : Block1[i].dst # OthersLabel
             /\ \A i \in 1..Len(Block2) : Block2[i].src # OthersLabel

\* C5 witness: exactly as many categories as the cap, several of them, with
\* lines in Block 1.
C5_Witness ==
    /\ Done
    /\ Cardinality(Cats) = top_categories
    /\ top_categories >= 2
    /\ Len(Block1) >= 2

\* C6: every distinct category is either kept under its own name on all of
\* its rows or folded into Others on all of them, never both, and a row's
\* grouped category is its own category or Others.
C6_GroupingPartitions ==
    Grouped =>
        /\ \A i \in 1..Len(df) :
               df[i].MeterCategory_Grouped \in { df[i].MeterCategory, "Others" }
        /\ \A c \in Cats :
               LET kept == \A r \in Range(RowsOf(c)) : r.MeterCategory_Grouped = c
                   folded == \A r \in Range(RowsOf(c)) : r.MeterCategory_Grouped = "Others"
               IN  /\ kept \/ folded
                   /\ ~(kept /\ folded)
                   /\ kept <=> c \in categories_to_keep
        /\ DOMAIN GroupSum(df, "MeterCategory_Grouped") =
               (Cats \cap categories_to_keep)
                   \cup (IF Cats \subseteq categories_to_keep THEN {} ELSE { "Others" })

\* C6 witness: some categories kept and several folded.
C6_Witness ==
    /\ Grouped
    /\ Cats \cap categories_to_keep # {}
    /\ Cardinality(Cats \ categories_to_keep) >= 2

\* the category or environment a label stands for
NameOf(label) ==
    CHOOSE n \in Range(NameOrder) : get_label(n, HARDCODED_OVERWRITE_MAP) = label

\* lines in cost-descending order, equal costs by name ascending
ByCostThenName(lines, names) ==
    \A i, j \in 1..Len(lines) :
        i < j =>
            \/ lines[i].cost > lines[j].cost
            \/ /\ lines[i].cost = lines[j].cost
               /\ Rank(names[i]) < Rank(names[j])

\* position of a category label in Block 2
PosInBlock2(label) == CHOOSE i \in 1..Len(Block2) : Block2[i].src = label

\* C7: the free slots go to the non-mandatory categories that come first by
\* cost descending, then name ascending: every kept non-mandatory category
\* costs more than every folded one, or the same with a smaller name.
C7_FillByCostThenName ==
    (Selected /\ FillBranch) =>
        \A c \in categories_to_keep \ Mandatory :
            \A d \in Cats \ categories_to_keep :
                \/ grouped_by_cat(df)[c] > grouped_by_cat(df)[d]
                \/ /\ grouped_by_cat(df)[c] = grouped_by_cat(df)[d]
                   /\ Rank(c) < Rank(d)

\* the part of C7 the sort settles: no folded category costs more than a
\* kept non-mandatory one.
C7_FillByCost ==
    (Selected /\ FillBranch) =>
        \A c \in categories_to_keep \ Mandatory :
            \A d \in Cats \ categories_to_keep :
                grouped_by_cat(df)[c] >= grouped_by_cat(df)[d]

\* C8: Block 2 and Block 3 are in cost-descending order with equal costs by
\* name ascending; Block 1 lists SavingsPlan, then Reservation, then
\* OnDemand, each with its categories in the order they have in Block 2.
C8_FixedLineOrder ==
    Done =>
        /\ ByCostThenName(Block2, [ i \in 1..Len(Block2) |-> NameOf(Block2[i].src) ])
        /\ ByCostThenName(Block3, [ i \in 1..Len(Block3) |-> NameOf(Block3[i].dst) ])
        /\ \A i, j \in 1..Len(Block1) :
               i < j =>
                   /\ ModelRank(Block1[i].src) <= ModelRank(Block1[j].src)
                   /\ Block1[i].src = Block1[j].src =>
                          PosInBlock2(Block1[i].dst) < PosInBlock2(Block1[j].dst)

\* the part of C8 the sort settles: costs never increase down Block 2 and
\* Block 3, and Block 1 follows the pricing order and the order of Block 2.
C8_CostDescending ==
    Done =>
        /\ \A i, j \in 1..Len(Block2) : i < j => Block2[i].cost >= Block2[j].cost
        /\ \A i, j \in 1..Len(Block3) : i < j => Block3[i].cost >= Block3[j].cost
        /\ \A i, j \in 1..Len(Block1) :
               i < j =>
                   /\ ModelRank(Block1[i].src) <= ModelRank(Block1[j].src)
                   /\ Block1[i].src = Block1[j].src =>
                          PosInBlock2(Block1[i].dst) < PosInBlock2(Block1[j].dst)

\* C9: with more categories than the cap and fewer than cap - 1 mandatory
\* ones, cap - 1 categories are kept and Others is the cap-th node of the
\* category column.
C9_ExactlyCapNodes ==
    FillBranch =>
        /\ Selected =>
             /\ Cardinality(categories_to_keep) = top_categories - 1
             /\ categories_to_keep \subseteq Cats
        /\ Grouped =>
             /\ Cardinality(DOMAIN GroupSum(df, "MeterCategory_Grouped")) = top_categories
             /\ "Others" \in DOMAIN GroupSum(df, "MeterCategory_Grouped")
        /\ Done =>
             /\ Len(Block2) = top_categories
             /\ Cardinality({ Block2[i].src : i \in 1..Len(Block2) }) = top_categories
             /\ Cardinality({ i \in 1..Len(Block2) : Block2[i].src = OthersLabel }) = 1

\* C9 witness: a cap of 3 or more met by a mandatory category, a filler and
\* Others.
C9_Witness ==
    /\ Done
    /\ FillBranch
    /\ top_categories >= 3
    /\ Mandatory # {}
    /\ categories_to_keep # Mandatory

====
